---------------------------- MODULE Spec2Model ----------------------------
(***************************************************************************)
(* Leave Record Service: the four server iterations of the repository.     *)
(*                                                                         *)
(*   "joi"  src/server.js          Joi schema, verifyCaptcha, redaction    *)
(*   "p0"   src/unnamed/part_000   manual regex, optional inline reCAPTCHA *)
(*   "p1"   src/unnamed/part_001   express-validator chain, no /api/leaves *)
(*   "p2"   src/unnamed/part_002   manual regex, no verification           *)
(*                                                                         *)
(* JavaScript strings are sequences of one-character strings, so that the  *)
(* regular expressions, trim() and String(number) are computed character   *)
(* by character.  A JavaScript value is a record [t, s, n]: t is the tag   *)
(* ("string", "number", "NaN", "undefined"), s the characters of a string, *)
(* n the value of a number.                                                *)
(***************************************************************************)
EXTENDS Integers, Sequences, FiniteSets, TLC

VARIABLES
    variant,    \* which server file is running
    secret,     \* process.env.RECAPTCHA_SECRET is a non-empty string
    leaves,     \* the record store (const leaves)
    req,        \* the requests: position in the handler, body, response
    calc,       \* one application of calcDays (specification CalcSpec)
    val         \* one application of the three validators (specification ValSpec)

vars == <<variant, secret, leaves, req, calc, val>>

----------------------------------------------------------------------------
(* JavaScript values *)

Str(chars) == [t |-> "string", s |-> chars, n |-> 0]
Num(k) == [t |-> "number", s |-> <<>>, n |-> k]
NaN == [t |-> "NaN", s |-> <<>>, n |-> 0]
Undefined == [t |-> "undefined", s |-> <<>>, n |-> 0]

\* typeof v
TypeOf(v) == IF v.t = "NaN" THEN "number" ELSE v.t

\* ToBoolean(v): undefined, "", 0 and NaN are falsy
Truthy(v) ==
    CASE v.t = "string" -> v.s # <<>>
      [] v.t = "number" -> v.n # 0
      [] OTHER -> FALSE

Digits == {"0", "1", "2", "3", "4", "5", "6", "7", "8", "9"}
Upper == {"A", "B", "C", "D", "E", "F", "G", "H", "I", "J", "K", "L", "M",
          "N", "O", "P", "Q", "R", "S", "T", "U", "V", "W", "X", "Y", "Z"}
Lower == {"a", "b", "c", "d", "e", "f", "g", "h", "i", "j", "k", "l", "m",
          "n", "o", "p", "q", "r", "s", "t", "u", "v", "w", "x", "y", "z"}
AlNum == Digits \cup Upper \cup Lower
WhiteSpace == {" "}

DigitChars == <<"0", "1", "2", "3", "4", "5", "6", "7", "8", "9">>
DigitChar(k) == DigitChars[k + 1]
DigitValue(c) == CHOOSE k \in 0..9 : DigitChars[k + 1] = c

Rep(c, k) == [i \in 1..k |-> c]

\* String(k) for a non-negative integer k
RECURSIVE NatToChars(_)
NatToChars(k) ==
    IF k < 10 THEN <<DigitChar(k)>>
    ELSE Append(NatToChars(k \div 10), DigitChar(k % 10))

\* the value of a run of decimal digits
RECURSIVE CharsToNat(_)
CharsToNat(chars) ==
    IF chars = <<>> THEN 0
    ELSE 10 * CharsToNat(SubSeq(chars, 1, Len(chars) - 1))
         + DigitValue(chars[Len(chars)])

----------------------------------------------------------------------------
(* Date and calcDays.  A time value is NaN or a whole number of            *)
(* milliseconds since the epoch, kept as (day, ms within the day) because  *)
(* the millisecond count of a date in 2025 does not fit a 32-bit integer.  *)

MsPerDay == 1000 * 60 * 60 * 24
MsPerDayP1 == 1000 * 3600 * 24

InvalidDate == [nan |-> TRUE, day |-> 0, ms |-> 0]
TimeValue(d, m) == [nan |-> FALSE, day |-> d, ms |-> m]

\* ECMAScript DayFromYear(y)
DayFromYear(y) ==
    365 * (y - 1970) + ((y - 1969) \div 4) - ((y - 1901) \div 100)
    + ((y - 1601) \div 400)

IsLeapYear(y) == (y % 4 = 0) /\ ((y % 100 # 0) \/ (y % 400 = 0))

DaysInMonth(y, m) ==
    CASE m \in {4, 6, 9, 11} -> 30
      [] m = 2 -> IF IsLeapYear(y) THEN 29 ELSE 28
      [] OTHER -> 31

RECURSIVE DaysBeforeMonth(_, _)
DaysBeforeMonth(y, m) ==
    IF m = 1 THEN 0 ELSE DaysBeforeMonth(y, m - 1) + DaysInMonth(y, m - 1)

\* ECMAScript MakeDay(year, month, date): a date past the end of its month
\* runs over into the next one
MakeDay(y, m, d) == DayFromYear(y) + DaysBeforeMonth(y, m) + d - 1

\* the date-only ISO form YYYY-MM-DD
IsIsoDateForm(chars) ==
    /\ Len(chars) = 10
    /\ chars[5] = "-" /\ chars[8] = "-"
    /\ \A i \in {1, 2, 3, 4, 6, 7, 9, 10} : chars[i] \in Digits

IsoYear(chars) == CharsToNat(SubSeq(chars, 1, 4))
IsoMonth(chars) == CharsToNat(SubSeq(chars, 6, 7))
IsoDay(chars) == CharsToNat(SubSeq(chars, 9, 10))

\* new Date(string) for the inputs of this model: a date-only ISO string is
\* midnight UTC of that day; month 01..12 and day 01..31 are accepted (V8,
\* the engine of Node.js), anything else here is an Invalid Date
NewDate(v) ==
    LET year == IsoYear(v.s)
        month == IsoMonth(v.s)
        day == IsoDay(v.s)
    IN  IF /\ v.t = "string"
           /\ IsIsoDateForm(v.s)
           /\ month \in 1..12
           /\ day \in 1..31
        THEN TimeValue(MakeDay(year, month, day), 0)
        ELSE InvalidDate

\* e < s on two Date objects (a comparison with NaN is false)
DateLess(e, s) ==
    /\ ~e.nan /\ ~s.nan
    /\ (e.day < s.day \/ (e.day = s.day /\ e.ms < s.ms))

\* Math.floor((e - s) / msPerDay) for two valid time values
FloorDays(e, s, msPerDay) ==
    (e.day - s.day) + ((e.ms - s.ms) \div msPerDay)

\* a calcDays that forgets the inclusive "+ 1"
calcDaysExclusive(start, end) ==
    LET s == NewDate(start)
        e == NewDate(end)
    IN  IF s.nan \/ e.nan \/ DateLess(e, s) THEN Num(0)
        ELSE Num(FloorDays(e, s, MsPerDay))

\* calcDays of server.js, part_000 and part_002
calcDays(start, end) ==
    LET s == NewDate(start)
        e == NewDate(end)
    IN  IF s.nan \/ e.nan \/ DateLess(e, s) THEN Num(0)
        ELSE Num(FloorDays(e, s, MsPerDay) + 1)

\* calcDays of part_001: no guard
calcDaysP1(start, end) ==
    LET startDate == NewDate(start)
        endDate == NewDate(end)
    IN  IF startDate.nan \/ endDate.nan THEN NaN
        ELSE Num(FloorDays(endDate, startDate, MsPerDayP1) + 1)

----------------------------------------------------------------------------
(* The leave data.  The Arabic display strings are written in Latin       *)
(* letters; "Dabhour" is the variant spelling of part_000 .. part_002.     *)

SC1 == <<"G", "S", "L", "2", "5", "0", "2", "1", "3", "7", "2", "7", "7", "8">>
SC2 == <<"G", "S", "L", "2", "5", "0", "2", "1", "8", "9", "8", "5", "7", "9">>
SC3 == <<"G", "S", "L", "2", "5", "0", "2", "2", "3", "8", "5", "0", "3", "6">>
SC4 == <<"G", "S", "L", "2", "5", "0", "2", "2", "8", "8", "4", "6", "0", "2">>
SC5 == <<"G", "S", "L", "2", "5", "0", "2", "3", "3", "4", "5", "0", "1", "2">>
SC6 == <<"G", "S", "L", "2", "5", "0", "6", "2", "9", "5", "5", "8", "2", "4">>
SC7 == <<"G", "S", "L", "2", "5", "0", "7", "1", "6", "7", "8", "9", "4", "5">>
ID1 == <<"1", "0", "8", "8", "5", "7", "6", "0", "4", "4">>

\* "2025-MM-DD"
D25(mm, dd) == <<"2", "0", "2", "5", "-">> \o mm \o <<"-">> \o dd

BeneficiaryName == "Abdulelah Sulaiman Abdullah Alhudailij"
DrHuda == "Huda Mustafa Khidr Dahbour"
DrHudaAlt == "Huda Mustafa Khidr Dabhour"
DrJamal == "Jamal Rashid Alsir Mohammed Ahmed"
DrAbdulaziz == "Abdulaziz Fahd Humaijan Alrouqi"
DrAbdulazizShort == "Abdulaziz Fahd Alrouqi"

\* one literal of the leave list
Raw(code, report, start, end, doctor) ==
    [serviceCode |-> Str(code), idNumber |-> Str(ID1),
     name |-> BeneficiaryName, reportDate |-> Str(report),
     startDate |-> Str(start), endDate |-> Str(end),
     doctorName |-> doctor, jobTitle |-> "Consultant"]

\* the list literal of server.js
rawLeavesJoi ==
    <<Raw(SC1, D25(<<"0", "2">>, <<"2", "4">>), D25(<<"0", "2">>, <<"0", "9">>), D25(<<"0", "2">>, <<"2", "4">>), DrHuda),
      Raw(SC2, D25(<<"0", "3">>, <<"2", "6">>), D25(<<"0", "2">>, <<"2", "5">>), D25(<<"0", "3">>, <<"2", "6">>), DrJamal),
      Raw(SC3, D25(<<"0", "4">>, <<"1", "7">>), D25(<<"0", "3">>, <<"2", "7">>), D25(<<"0", "4">>, <<"1", "7">>), DrJamal),
      Raw(SC4, D25(<<"0", "5">>, <<"1", "5">>), D25(<<"0", "4">>, <<"1", "8">>), D25(<<"0", "5">>, <<"1", "5">>), DrHuda),
      Raw(SC5, D25(<<"0", "6">>, <<"1", "2">>), D25(<<"0", "5">>, <<"1", "6">>), D25(<<"0", "6">>, <<"1", "2">>), DrHuda),
      Raw(SC6, D25(<<"0", "7">>, <<"1", "1">>), D25(<<"0", "6">>, <<"1", "3">>), D25(<<"0", "7">>, <<"1", "1">>), DrHuda),
      Raw(SC7, D25(<<"0", "7">>, <<"1", "2">>), D25(<<"0", "7">>, <<"1", "2">>), D25(<<"0", "7">>, <<"2", "5">>), DrAbdulaziz)>>

\* the list literal of part_000
rawLeavesP0 ==
    <<Raw(SC1, D25(<<"0", "2">>, <<"2", "4">>), D25(<<"0", "2">>, <<"0", "9">>), D25(<<"0", "2">>, <<"2", "4">>), DrHuda),
      Raw(SC2, D25(<<"0", "3">>, <<"2", "6">>), D25(<<"0", "2">>, <<"2", "5">>), D25(<<"0", "3">>, <<"2", "6">>), DrJamal),
      Raw(SC3, D25(<<"0", "4">>, <<"1", "7">>), D25(<<"0", "3">>, <<"2", "7">>), D25(<<"0", "4">>, <<"1", "7">>), DrJamal),
      Raw(SC4, D25(<<"0", "5">>, <<"1", "5">>), D25(<<"0", "4">>, <<"1", "8">>), D25(<<"0", "5">>, <<"1", "5">>), DrHuda),
      Raw(SC5, D25(<<"0", "6">>, <<"1", "2">>), D25(<<"0", "5">>, <<"1", "6">>), D25(<<"0", "6">>, <<"1", "2">>), DrHuda),
      Raw(SC6, D25(<<"0", "7">>, <<"1", "1">>), D25(<<"0", "6">>, <<"1", "3">>), D25(<<"0", "7">>, <<"1", "1">>), DrHudaAlt),
      Raw(SC7, D25(<<"0", "7">>, <<"1", "2">>), D25(<<"0", "7">>, <<"1", "2">>), D25(<<"0", "7">>, <<"2", "5">>), DrAbdulaziz)>>

\* the list literal of part_001
rawLeavesP1 ==
    <<Raw(SC1, D25(<<"0", "2">>, <<"2", "4">>), D25(<<"0", "2">>, <<"0", "9">>), D25(<<"0", "2">>, <<"2", "4">>), DrHuda),
      Raw(SC2, D25(<<"0", "3">>, <<"2", "6">>), D25(<<"0", "2">>, <<"2", "5">>), D25(<<"0", "3">>, <<"2", "6">>), DrJamal),
      Raw(SC3, D25(<<"0", "4">>, <<"1", "7">>), D25(<<"0", "3">>, <<"2", "7">>), D25(<<"0", "4">>, <<"1", "7">>), DrJamal),
      Raw(SC4, D25(<<"0", "4">>, <<"1", "8">>), D25(<<"0", "4">>, <<"1", "8">>), D25(<<"0", "5">>, <<"1", "5">>), DrHuda),
      Raw(SC5, D25(<<"0", "5">>, <<"1", "6">>), D25(<<"0", "5">>, <<"1", "6">>), D25(<<"0", "6">>, <<"1", "2">>), DrHuda),
      Raw(SC6, D25(<<"0", "6">>, <<"1", "3">>), D25(<<"0", "6">>, <<"1", "3">>), D25(<<"0", "7">>, <<"1", "1">>), DrHudaAlt),
      Raw(SC7, D25(<<"0", "7">>, <<"1", "2">>), D25(<<"0", "7">>, <<"1", "2">>), D25(<<"0", "7">>, <<"2", "5">>), DrAbdulaziz)>>

\* the list literal of part_002
rawLeavesP2 ==
    <<Raw(SC1, D25(<<"0", "2">>, <<"2", "4">>), D25(<<"0", "2">>, <<"0", "9">>), D25(<<"0", "2">>, <<"2", "4">>), DrHuda),
      Raw(SC2, D25(<<"0", "3">>, <<"2", "6">>), D25(<<"0", "2">>, <<"2", "5">>), D25(<<"0", "3">>, <<"2", "6">>), DrJamal),
      Raw(SC3, D25(<<"0", "4">>, <<"1", "7">>), D25(<<"0", "3">>, <<"2", "7">>), D25(<<"0", "4">>, <<"1", "7">>), DrJamal),
      Raw(SC4, D25(<<"0", "4">>, <<"1", "8">>), D25(<<"0", "4">>, <<"1", "8">>), D25(<<"0", "5">>, <<"1", "5">>), DrHuda),
      Raw(SC5, D25(<<"0", "5">>, <<"1", "6">>), D25(<<"0", "5">>, <<"1", "6">>), D25(<<"0", "6">>, <<"1", "2">>), DrHuda),
      Raw(SC6, D25(<<"0", "6">>, <<"1", "3">>), D25(<<"0", "6">>, <<"1", "3">>), D25(<<"0", "7">>, <<"1", "1">>), DrHudaAlt),
      Raw(SC7, D25(<<"0", "7">>, <<"1", "2">>), D25(<<"0", "7">>, <<"1", "2">>), D25(<<"0", "7">>, <<"3", "1">>), DrAbdulazizShort)>>

----------------------------------------------------------------------------
(* The record store: the list literal mapped through calcDays. *)

rawLeaves(v) ==
    CASE v = "joi" -> rawLeavesJoi
      [] v = "p0" -> rawLeavesP0
      [] v = "p1" -> rawLeavesP1
      [] v = "p2" -> rawLeavesP2

\* { ...l, days: d }
WithDays(l, d) ==
    [f \in DOMAIN l \cup {"days"} |-> IF f = "days" THEN d ELSE l[f]]

\* the calcDays the file v defines
calcDaysOf(v, start, end) ==
    IF v = "p1" THEN calcDaysP1(start, end) ELSE calcDays(start, end)

\* rawLeaves.map(l => ({ ...l, days: calcDays(l.startDate, l.endDate) }))
BuildLeaves(v) ==
    LET raw == rawLeaves(v)
    IN  [i \in DOMAIN raw |->
            WithDays(raw[i], calcDaysOf(v, raw[i].startDate, raw[i].endDate))]

\* const { idNumber: _, ...safeRecord } = record
Redact(record) == [f \in DOMAIN record \ {"idNumber"} |-> record[f]]

\* leaves.find(l => l.serviceCode === serviceCode && l.idNumber === idNumber):
\* the index of the first match, 0 when there is none
FindIndex(store, serviceCode, idNumber) ==
    LET hits == {i \in DOMAIN store :
                    /\ store[i].serviceCode = serviceCode
                    /\ store[i].idNumber = idNumber}
    IN  IF hits = {} THEN 0
        ELSE CHOOSE i \in hits : \A j \in hits : i <= j

----------------------------------------------------------------------------
(* The request validators. *)

AllIn(chars, class) == \A i \in DOMAIN chars : chars[i] \in class

\* /^[A-Za-z0-9]{8,20}$/.test(chars)
ServiceCodeRe(chars) == Len(chars) >= 8 /\ Len(chars) <= 20 /\ AllIn(chars, AlNum)

\* /^[0-9]{10}$/.test(chars)
IdNumberRe(chars) == Len(chars) = 10 /\ AllIn(chars, Digits)

\* part_000 and part_002: the request passes the if of the handler
ManualValid(body) ==
    ~ \/ TypeOf(body.serviceCode) # "string"
      \/ ~ServiceCodeRe(body.serviceCode.s)
      \/ TypeOf(body.idNumber) # "string"
      \/ ~IdNumberRe(body.idNumber.s)

\* Joi.string().required(): a non-empty string, no conversion from numbers
JoiString(v) == v.t = "string" /\ v.s # <<>>

\* Joi.string().alphanum().min(8).max(20).required()
JoiServiceCode(v) ==
    JoiString(v) /\ AllIn(v.s, AlNum) /\ Len(v.s) >= 8 /\ Len(v.s) <= 20

\* Joi.string().pattern(/^[0-9]{10}$/).required()
JoiIdNumber(v) == JoiString(v) /\ IdNumberRe(v.s)

\* a schema whose captchaToken is not required
JoiValidTokenOptional(body) ==
    /\ JoiServiceCode(body.serviceCode)
    /\ JoiIdNumber(body.idNumber)
    /\ (body.captchaToken.t = "undefined" \/ JoiString(body.captchaToken))

\* leaveSchema.validateAsync(body) resolves
JoiValid(body) ==
    /\ JoiServiceCode(body.serviceCode)
    /\ JoiIdNumber(body.idNumber)
    /\ JoiString(body.captchaToken)

\* express-validator's toString(value) ahead of every standard validator
\* and sanitizer
EvToString(v) ==
    CASE v.t = "string" -> v.s
      [] v.t = "number" -> NatToChars(v.n)
      [] OTHER -> <<>>

\* validator.js trim(str): leading and trailing white space removed
RECURSIVE Trim(_)
Trim(chars) ==
    IF chars = <<>> THEN chars
    ELSE IF chars[1] \in WhiteSpace THEN Trim(Tail(chars))
    ELSE IF chars[Len(chars)] \in WhiteSpace
         THEN Trim(SubSeq(chars, 1, Len(chars) - 1))
    ELSE chars

\* validator.js isNumeric(str): /^[+-]?([0-9]*[.])?[0-9]+$/
IsNumeric(chars) ==
    LET rest == IF chars # <<>> /\ chars[1] \in {"+", "-"}
                THEN Tail(chars) ELSE chars
        dots == {i \in DOMAIN rest : rest[i] = "."}
    IN  \/ rest # <<>> /\ AllIn(rest, Digits)
        \/ \E p \in dots :
              /\ AllIn(SubSeq(rest, 1, p - 1), Digits)
              /\ p < Len(rest)
              /\ AllIn(SubSeq(rest, p + 1, Len(rest)), Digits)

\* body('serviceCode').trim() and body('idNumber').trim(): the sanitized
\* value, which express-validator writes back to req.body
EvSanitize(v) == Str(Trim(EvToString(v)))

\* body('serviceCode').trim().isLength({ min: 8, max: 20 }).matches(/^[A-Za-z0-9]+$/)
EvServiceCode(v) ==
    LET chars == EvSanitize(v).s
    IN  Len(chars) >= 8 /\ Len(chars) <= 20 /\ chars # <<>> /\ AllIn(chars, AlNum)

\* body('idNumber').trim().isLength({ min: 10, max: 10 }).isNumeric()
EvIdNumber(v) ==
    LET chars == EvSanitize(v).s
    IN  Len(chars) >= 10 /\ Len(chars) <= 10 /\ IsNumeric(chars)

\* part_001: validationResult(req).isEmpty()
ExpressValid(body) == EvServiceCode(body.serviceCode) /\ EvIdNumber(body.idNumber)

\* the validator of the file v
Valid(v, body) ==
    CASE v = "joi" -> JoiValid(body)
      [] v = "p1" -> ExpressValid(body)
      [] OTHER -> ManualValid(body)

\* what the handler of v searches with after validation: part_001 reads
\* the sanitized req.body, Joi returns the values unconverted
Validated(v, body) ==
    IF v = "p1"
    THEN [serviceCode |-> EvSanitize(body.serviceCode),
          idNumber |-> EvSanitize(body.idNumber),
          captchaToken |-> body.captchaToken]
    ELSE body

----------------------------------------------------------------------------
(* The verification collaborator (reCAPTCHA siteverify through axios). *)

\* timeout: 5000 of the axios call in verifyCaptcha
CaptchaTimeoutMs == 5000

\* the score threshold 0.5; scores are kept in tenths
HalfInTenths == 5

\* the timeout option of the axios.post of file v; 0 is axios's default,
\* no timeout
AxiosTimeoutMs(v) == IF v = "joi" THEN CaptchaTimeoutMs ELSE 0

\* response.data of siteverify: success, and a score or none
Answers ==
    {[success |-> TRUE, score |-> Undefined],
     [success |-> TRUE, score |-> Num(9)],
     [success |-> TRUE, score |-> Num(3)],
     [success |-> FALSE, score |-> Undefined]}

NoAnswer == [success |-> FALSE, score |-> Undefined]

\* score >= 0.5 (false for undefined) and score < 0.5 (false for undefined)
ScoreGeHalf(score) == score.t = "number" /\ score.n >= HalfInTenths
ScoreLtHalf(score) == score.t = "number" /\ score.n < HalfInTenths

\* a handler that lets every answer through
CaptchaPassesAlways(v, ans) == TRUE

\* the handler of v goes on to the lookup on this answer.
\* server.js: data.success && data.score >= 0.5
\* part_000:  !(!data.success || (data.score !== undefined && data.score < 0.5))
CaptchaPasses(v, ans) ==
    IF v = "joi"
    THEN ans.success /\ ScoreGeHalf(ans.score)
    ELSE ~(~ans.success \/ (ans.score.t # "undefined" /\ ScoreLtHalf(ans.score)))

----------------------------------------------------------------------------
(* Requests. *)

MaxRequests == 2
Requests == 1..MaxRequests

Variants == {"joi", "p0", "p1", "p2"}

Body(serviceCode, idNumber, captchaToken) ==
    [serviceCode |-> serviceCode, idNumber |-> idNumber,
     captchaToken |-> captchaToken]

NoBody == Body(Undefined, Undefined, Undefined)

Token == Str(<<"t", "o", "k">>)
WrongId == <<"1", "0", "8", "8", "5", "7", "6", "0", "4", "5">>
ElevenDigits == <<"1", "2", "3", "4", "5", "6", "7", "8", "9", "0", "1">>
SC1Lower == <<"g", "s", "l", "2", "5", "0", "2", "1", "3", "7", "2", "7", "7", "8">>

\* the request bodies of the requests of the model
PostBodies ==
    {Body(Str(SC1), Str(ID1), Token),
     Body(Str(SC1), Str(ID1), Undefined),
     Body(Str(SC1), Str(ID1), Str(<<>>)),
     Body(Str(SC7), Str(ID1), Token),
     Body(Str(SC1), Str(WrongId), Token),
     Body(Str(SC1Lower), Str(ID1), Token),
     Body(Str(<<" ">> \o SC1), Str(ID1), Token),
     Body(Str(SC1), Num(1088576044), Token),
     Body(Str(Rep("A", 7)), Str(ID1), Token),
     Body(Str(SC1), Str(ElevenDigits), Undefined)}

IdleRequest ==
    [pc |-> "idle", method |-> "", body |-> NoBody, data |-> NoBody,
     log |-> <<>>, outcome |-> "none", answer |-> NoAnswer,
     status |-> 0, success |-> FALSE, records |-> <<>>]

\* res.status(status).json({ success, ... }): records are the leave records
\* the body carries (record: one, leaves: all, an error body: none)
Respond(r0, status, success, records) ==
    [r0 EXCEPT !.pc = "done", !.status = status, !.success = success,
               !.records = records, !.log = r0.log \o <<"respond">>]

Logged(r0, event) == [r0 EXCEPT !.log = Append(r0.log, event)]

\* the lookup and the answer of the handler of v:
\* leaves.find(...), then 404, or 200 with the record (server.js: redacted)
Lookup(v, r0, store) ==
    LET r1 == Logged(r0, "search")
        i == FindIndex(store, r1.data.serviceCode, r1.data.idNumber)
    IN  IF i = 0 THEN Respond(r1, 404, FALSE, <<>>)
        ELSE Respond(r1, 200, TRUE,
                     <<IF v = "joi" THEN Redact(store[i]) ELSE store[i]>>)

Arrived(r0, method, body) == [r0 EXCEPT !.method = method, !.body = body]

----------------------------------------------------------------------------
(* The handlers.  Each operator gives the request as the handler leaves    *)
(* it at its next suspension or at its response.                           *)

\* server.js, app.post('/api/leave') up to the axios call of verifyCaptcha
PostStartJoi(r0, body, sec, store) ==
    LET r1 == Logged(Arrived(r0, "POST", body), "validate")
        r2 == [r1 EXCEPT !.data = Validated("joi", body)]
    IN  IF ~JoiValid(body) THEN Respond(r1, 400, FALSE, <<>>)
        ELSE IF ~sec THEN Lookup("joi", r2, store)
        ELSE [Logged(r2, "verifyCall") EXCEPT !.pc = "verifying"]

\* part_000, app.post('/api/leave') up to the axios call
PostStartP0(r0, body, sec, store) ==
    LET r1 == Logged(Arrived(r0, "POST", body), "validate")
        r2 == [r1 EXCEPT !.data = Validated("p0", body)]
    IN  IF ~ManualValid(body) THEN Respond(r1, 400, FALSE, <<>>)
        ELSE IF sec /\ Truthy(body.captchaToken)
        THEN [Logged(r2, "verifyCall") EXCEPT !.pc = "verifying"]
        ELSE Lookup("p0", r2, store)

\* part_001, the validation chains and the handler
PostP1(r0, body, store) ==
    LET r1 == Logged(Arrived(r0, "POST", body), "validate")
        r2 == [r1 EXCEPT !.data = Validated("p1", body)]
    IN  IF ~ExpressValid(body) THEN Respond(r1, 400, FALSE, <<>>)
        ELSE Lookup("p1", r2, store)

\* a part_002 handler whose 400 branch does not return
PostP2NoReturn(r0, body, store) ==
    LET r1 == Logged(Arrived(r0, "POST", body), "validate")
        r2 == [r1 EXCEPT !.data = Validated("p2", body)]
    IN  IF ~ManualValid(body)
        THEN Respond(Logged(r2, "search"), 400, FALSE, <<>>)
        ELSE Lookup("p2", r2, store)

\* part_002, app.post('/api/leave')
PostP2(r0, body, store) ==
    LET r1 == Logged(Arrived(r0, "POST", body), "validate")
        r2 == [r1 EXCEPT !.data = Validated("p2", body)]
    IN  IF ~ManualValid(body) THEN Respond(r1, 400, FALSE, <<>>)
        ELSE Lookup("p2", r2, store)

\* the handler of v from the end of the axios call: outcome is "answer"
\* (siteverify answered ans), "error" (the call threw: network failure) or
\* "timeout" (axios gave up after its timeout and threw).
\* server.js: verifyCaptcha catches and returns false, the handler answers
\* 403; part_000: the catch of the handler answers 500
VerifyDone(v, r0, outcome, ans, store) ==
    LET r1 == [Logged(r0, outcome) EXCEPT !.outcome = outcome, !.answer = ans]
    IN  IF outcome = "answer"
        THEN IF CaptchaPasses(v, ans) THEN Lookup(v, r1, store)
             ELSE Respond(r1, 403, FALSE, <<>>)
        ELSE IF v = "joi" THEN Respond(r1, 403, FALSE, <<>>)
        ELSE Respond(r1, 500, FALSE, <<>>)

\* app.get('/api/leaves'): server.js maps the idNumber away, part_000 and
\* part_002 send the store itself; part_001 has no such route and the
\* request ends in Express's 404
ListLeaves(v, r0, store) ==
    LET r1 == Arrived(r0, "GET", NoBody)
    IN  CASE v = "joi" ->
               Respond(r1, 200, TRUE, [i \in DOMAIN store |-> Redact(store[i])])
          [] v = "p1" -> Respond(r1, 404, FALSE, <<>>)
          [] OTHER -> Respond(r1, 200, TRUE, store)

----------------------------------------------------------------------------
(* The service. *)

CalcIdle ==
    [start |-> Undefined, end |-> Undefined, result |-> Undefined,
     done |-> FALSE]

ValIdle ==
    [body |-> NoBody, express |-> FALSE, manual |-> FALSE, joi |-> FALSE,
     done |-> FALSE]

\* server.js exits at startup when RECAPTCHA_SECRET is missing
Init ==
    /\ variant \in Variants
    /\ secret \in BOOLEAN
    /\ variant = "joi" => secret
    /\ leaves = BuildLeaves(variant)
    /\ req = [r \in Requests |-> IdleRequest]
    /\ calc = CalcIdle
    /\ val = ValIdle

\* requests are numbered in their order of arrival
Fresh(r) ==
    /\ req[r].pc = "idle"
    /\ IF r = 1 THEN TRUE ELSE req[r - 1].pc # "idle"

PostLeaveJoi(r, body) ==
    /\ variant = "joi" /\ Fresh(r)
    /\ req' = [req EXCEPT ![r] = PostStartJoi(req[r], body, secret, leaves)]
    /\ UNCHANGED <<variant, secret, leaves, calc, val>>

PostLeaveP0(r, body) ==
    /\ variant = "p0" /\ Fresh(r)
    /\ req' = [req EXCEPT ![r] = PostStartP0(req[r], body, secret, leaves)]
    /\ UNCHANGED <<variant, secret, leaves, calc, val>>

PostLeaveP1(r, body) ==
    /\ variant = "p1" /\ Fresh(r)
    /\ req' = [req EXCEPT ![r] = PostP1(req[r], body, leaves)]
    /\ UNCHANGED <<variant, secret, leaves, calc, val>>

PostLeaveP2(r, body) ==
    /\ variant = "p2" /\ Fresh(r)
    /\ req' = [req EXCEPT ![r] = PostP2(req[r], body, leaves)]
    /\ UNCHANGED <<variant, secret, leaves, calc, val>>

\* a handler that keeps the validated values in variables of the module,
\* shared by all requests: after the await it searches with the values of
\* the request that arrived last
VerifyAnswerSharedData(r, ans) ==
    /\ req[r].pc = "verifying"
    /\ LET last == CHOOSE k \in Requests :
                       /\ req[k].pc # "idle"
                       /\ \A j \in Requests : req[j].pc # "idle" => j <= k
           mine == [req[r] EXCEPT !.data = req[last].data]
       IN  req' = [req EXCEPT ![r] = VerifyDone(variant, mine, "answer", ans, leaves)]
    /\ UNCHANGED <<variant, secret, leaves, calc, val>>

\* siteverify answers
VerifyAnswer(r, ans) ==
    /\ req[r].pc = "verifying"
    /\ req' = [req EXCEPT ![r] = VerifyDone(variant, req[r], "answer", ans, leaves)]
    /\ UNCHANGED <<variant, secret, leaves, calc, val>>

\* the axios call fails (network error)
VerifyError(r) ==
    /\ req[r].pc = "verifying"
    /\ req' = [req EXCEPT ![r] = VerifyDone(variant, req[r], "error", NoAnswer, leaves)]
    /\ UNCHANGED <<variant, secret, leaves, calc, val>>

\* the timeout of the axios call expires; without the option there is none
VerifyTimeout(r) ==
    /\ req[r].pc = "verifying"
    /\ AxiosTimeoutMs(variant) > 0
    /\ req' = [req EXCEPT ![r] = VerifyDone(variant, req[r], "timeout", NoAnswer, leaves)]
    /\ UNCHANGED <<variant, secret, leaves, calc, val>>

\* a listing that deletes idNumber from the records of the store itself
GetLeavesInPlace(r) ==
    /\ Fresh(r)
    /\ req' = [req EXCEPT ![r] = ListLeaves(variant, req[r], leaves)]
    /\ leaves' = [i \in DOMAIN leaves |-> Redact(leaves[i])]
    /\ UNCHANGED <<variant, secret, calc, val>>

GetLeaves(r) ==
    /\ Fresh(r)
    /\ req' = [req EXCEPT ![r] = ListLeaves(variant, req[r], leaves)]
    /\ UNCHANGED <<variant, secret, leaves, calc, val>>

Next ==
    \E r \in Requests :
        \/ \E body \in PostBodies : PostLeaveJoi(r, body)
        \/ \E body \in PostBodies : PostLeaveP0(r, body)
        \/ \E body \in PostBodies : PostLeaveP1(r, body)
        \/ \E body \in PostBodies : PostLeaveP2(r, body)
        \/ \E ans \in Answers : VerifyAnswer(r, ans)
        \/ VerifyError(r)
        \/ VerifyTimeout(r)
        \/ GetLeaves(r)

Spec == Init /\ [][Next]_vars

\* the timer of a pending axios call with a timeout does fire; whether a
\* request arrives, and whether siteverify ever answers, is up to the
\* environment
LiveSpec == Spec /\ \A r \in Requests : WF_vars(VerifyTimeout(r))

----------------------------------------------------------------------------
(* calcDays on its own: CalcSpec applies the calcDays of one file to one   *)
(* pair of date strings.                                                   *)

StoreDates ==
    UNION {{rawLeaves(v)[i].startDate, rawLeaves(v)[i].endDate} :
              v \in Variants, i \in 1..7}

SampleDates ==
    StoreDates \cup
    {Str(<<"2", "0", "2", "4", "-", "0", "2", "-", "2", "8">>),
     Str(<<"2", "0", "2", "4", "-", "0", "2", "-", "2", "9">>),
     Str(<<"2", "0", "2", "4", "-", "0", "3", "-", "0", "1">>),
     Str(<<"2", "0", "2", "4", "-", "1", "2", "-", "3", "1">>),
     Str(<<"2", "0", "2", "5", "-", "0", "1", "-", "0", "1">>),
     Str(<<"2", "0", "2", "5", "-", "0", "2", "-", "3", "0">>),
     Str(<<"2", "0", "2", "5", "-", "1", "3", "-", "0", "1">>),
     Str(<<"a", "b", "c">>),
     Str(<<>>),
     Undefined}

CalcInit ==
    /\ variant \in Variants
    /\ secret = TRUE
    /\ leaves = BuildLeaves(variant)
    /\ req = [r \in Requests |-> IdleRequest]
    /\ calc \in {[start |-> a, end |-> b, result |-> Undefined, done |-> FALSE] :
                    a \in SampleDates, b \in SampleDates}
    /\ val = ValIdle

\* calcDays(start, end) of server.js, part_000, part_002
CalcDaysCall ==
    /\ variant # "p1" /\ ~calc.done
    /\ calc' = [calc EXCEPT !.result = calcDays(calc.start, calc.end),
                            !.done = TRUE]
    /\ UNCHANGED <<variant, secret, leaves, req, val>>

\* calcDays(start, end) of part_001
CalcDaysP1Call ==
    /\ variant = "p1" /\ ~calc.done
    /\ calc' = [calc EXCEPT !.result = calcDaysP1(calc.start, calc.end),
                            !.done = TRUE]
    /\ UNCHANGED <<variant, secret, leaves, req, val>>

CalcNext == CalcDaysCall \/ CalcDaysP1Call

CalcSpec == CalcInit /\ [][CalcNext]_vars

----------------------------------------------------------------------------
(* The validators on their own: ValSpec applies the three of them to one   *)
(* request body.                                                           *)

ValCodes ==
    {Str(SC1), Str(SC1Lower), Str(<<" ">> \o SC1), Str(Append(SC1, " ")),
     Str(Rep("A", 7)), Str(Rep("A", 8)), Str(Rep("z", 20)), Str(Rep("7", 21)),
     Str(Append(Rep("A", 8), "_")), Str(<<>>), Num(12345678), Undefined}

ValIds ==
    {Str(ID1), Str(WrongId), Str(ElevenDigits), Str(Rep("1", 9)),
     Str(<<"+">> \o Rep("1", 9)), Str(<<"1", "0", "8", "8", "5", ".", "6", "0", "4", "4">>),
     Str(Append(ID1, " ")), Str(Rep("x", 10)), Num(1088576044), Undefined}

ValTokens == {Token, Str(<<>>), Undefined}

ValInit ==
    /\ variant = "joi"
    /\ secret = TRUE
    /\ leaves = BuildLeaves(variant)
    /\ req = [r \in Requests |-> IdleRequest]
    /\ calc = CalcIdle
    /\ val \in {[ValIdle EXCEPT !.body = Body(c, i, t)] :
                   c \in ValCodes, i \in ValIds, t \in ValTokens}

\* the validation of the three iterations on the same body
Validate ==
    /\ ~val.done
    /\ val' = [val EXCEPT !.express = ExpressValid(val.body),
                          !.manual = ManualValid(val.body),
                          !.joi = JoiValid(val.body),
                          !.done = TRUE]
    /\ UNCHANGED <<variant, secret, leaves, req, calc>>

ValNext == Validate

ValSpec == ValInit /\ [][ValNext]_vars

----------------------------------------------------------------------------
(* Claims. *)

Done(r) == req[r].pc = "done"
DonePost(r) == Done(r) /\ req[r].method = "POST"
InLog(r, event) == \E i \in DOMAIN req[r].log : req[r].log[i] = event
HasIdNumber(record) == "idNumber" \in DOMAIN record

\* C1: no response body of POST /api/leave or GET /api/leaves, in any
\* variant, carries a record with an idNumber field.
C1_NoIdNumberInResponses ==
    \A r \in Requests :
        Done(r) => \A i \in DOMAIN req[r].records : ~HasIdNumber(req[r].records[i])

\* the collaborator rejects the token: success is false, or the score is
\* below the threshold
Rejects(ans) == ~ans.success \/ ScoreLtHalf(ans.score)

VerifyResults == {"answer", "error", "timeout"}

\* C2: with a secret configured, a token the verification collaborator
\* rejects gives 403 and the store is not searched for that request; and
\* in every request that calls the collaborator the search comes after the
\* collaborator's result, never before it or while it is pending.
C2_RejectedTokenNeverSearches ==
    \A r \in Requests :
        /\ (req[r].outcome = "answer" /\ Rejects(req[r].answer)) =>
               /\ secret
               /\ Done(r) /\ req[r].status = 403
               /\ req[r].records = <<>>
               /\ ~InLog(r, "search")
        /\ req[r].pc = "verifying" => ~InLog(r, "search")
        /\ \A i \in DOMAIN req[r].log :
               (req[r].log[i] = "search" /\ InLog(r, "verifyCall")) =>
                   \E j \in 1..(i - 1), k \in 1..(i - 1) :
                       /\ j < k
                       /\ req[r].log[j] = "verifyCall"
                       /\ req[r].log[k] \in VerifyResults

C2_Witness ==
    \E r \in Requests :
        /\ secret /\ Done(r)
        /\ req[r].outcome = "answer" /\ ~req[r].answer.success
        /\ req[r].status = 403

\* C3: a verification call that fails with a network error or a timeout is
\* answered 403, in every variant that verifies.
C3_VerifyFailureIs403 ==
    \A r \in Requests :
        (Done(r) /\ req[r].outcome \in {"error", "timeout"}) =>
            req[r].status = 403

\* the serviceCode and idNumber of the body pass the validator of file v
FieldsValid(v, body) ==
    CASE v = "joi" -> JoiServiceCode(body.serviceCode) /\ JoiIdNumber(body.idNumber)
      [] v = "p1" -> EvServiceCode(body.serviceCode) /\ EvIdNumber(body.idNumber)
      [] OTHER -> ManualValid(body)

\* C4: a POST /api/leave whose serviceCode or idNumber fails the validation
\* of the handler is answered 400, with no verification call and no search
\* of the store.
C4_InvalidInputStopsAt400 ==
    \A r \in Requests :
        (req[r].method = "POST" /\ ~FieldsValid(variant, req[r].body)) =>
            /\ Done(r) /\ req[r].status = 400
            /\ req[r].records = <<>>
            /\ ~InLog(r, "verifyCall")
            /\ ~InLog(r, "search")

C4_Witness ==
    \E r \in Requests :
        /\ DonePost(r) /\ req[r].status = 400
        /\ req[r].body.serviceCode = Str(Rep("A", 7))

\* the accepted language of the contract: serviceCode a string matching
\* ^[A-Za-z0-9]{8,20}$ and idNumber a string matching ^[0-9]{10}$
ContractAccepts(body) ==
    /\ body.serviceCode.t = "string"
    /\ Len(body.serviceCode.s) \in 8..20
    /\ \A i \in DOMAIN body.serviceCode.s : body.serviceCode.s[i] \in AlNum
    /\ body.idNumber.t = "string"
    /\ Len(body.idNumber.s) = 10
    /\ \A i \in DOMAIN body.idNumber.s : body.idNumber.s[i] \in Digits

\* C5: the express-validator chain, the manual regex and the Joi schema
\* accept exactly the bodies of the contract, with or without captchaToken.
C5_ValidatorsAgree ==
    val.done =>
        /\ val.express = ContractAccepts(val.body)
        /\ val.manual = ContractAccepts(val.body)
        /\ val.joi = ContractAccepts(val.body)

\* the calendar date a date-only string names, <<year, month, day>>
Civil(v) == <<IsoYear(v.s), IsoMonth(v.s), IsoDay(v.s)>>

IsCalendarDate(v) ==
    /\ v.t = "string" /\ IsIsoDateForm(v.s)
    /\ IsoMonth(v.s) \in 1..12
    /\ IsoDay(v.s) \in 1..DaysInMonth(IsoYear(v.s), IsoMonth(v.s))

CivilLess(a, b) ==
    \/ a[1] < b[1]
    \/ a[1] = b[1] /\ a[2] < b[2]
    \/ a[1] = b[1] /\ a[2] = b[2] /\ a[3] < b[3]

\* every calendar date of the years of the samples
CalendarDates ==
    {<<y, m, d>> \in
        {IsoYear(v.s) : v \in {w \in SampleDates : IsCalendarDate(w)}}
        \X (1..12) \X (1..31) : d <= DaysInMonth(y, m)}

\* the number of whole days from a to b: the calendar dates from a up to,
\* not including, b
WholeDays(a, b) ==
    Cardinality({c \in CalendarDates : ~CivilLess(c, a) /\ CivilLess(c, b)})

Feb09 == Str(D25(<<"0", "2">>, <<"0", "9">>))
Feb24 == Str(D25(<<"0", "2">>, <<"2", "4">>))

\* C6: for valid calendar dates start <= end, calcDays(start, end) is the
\* number of whole days from start to end plus 1: 1 for start = end, 16 for
\* (2025-02-09, 2025-02-24).
C6_InclusiveDaySpan ==
    (/\ calc.done
     /\ IsCalendarDate(calc.start) /\ IsCalendarDate(calc.end)
     /\ ~CivilLess(Civil(calc.end), Civil(calc.start))) =>
        /\ calc.result = Num(WholeDays(Civil(calc.start), Civil(calc.end)) + 1)
        /\ calc.start = calc.end => calc.result = Num(1)
        /\ (calc.start = Feb09 /\ calc.end = Feb24) => calc.result = Num(16)

C6_Witness ==
    /\ calc.done /\ calc.start = Feb09 /\ calc.end = Feb24
    /\ calc.result = Num(16)

\* days is the inclusive span of the record's dates, or 0
SpanOrZero(l) ==
    \/ l.days = Num(0)
    \/ /\ IsCalendarDate(l.startDate) /\ IsCalendarDate(l.endDate)
       /\ l.days = Num(WholeDays(Civil(l.startDate), Civil(l.endDate)) + 1)

\* C7: in every variant calcDays returns 0 when a date string does not
\* parse or the end date precedes the start date, and days of every record
\* of the store is the inclusive span or 0.
C7_ZeroOnInvalidOrInverted ==
    /\ \A i \in DOMAIN leaves : SpanOrZero(leaves[i])
    /\ (/\ calc.done
        /\ \/ NewDate(calc.start).nan
           \/ NewDate(calc.end).nan
           \/ DateLess(NewDate(calc.end), NewDate(calc.start))) =>
           calc.result = Num(0)

\* C8: a request that reaches the lookup is answered 200 exactly when the
\* store holds a record whose serviceCode and idNumber equal the values of
\* the request, with the first such record; otherwise 404.
C8_ExactMatchLookup ==
    \A r \in Requests :
        (DonePost(r) /\ InLog(r, "search")) =>
            LET i == FindIndex(leaves, req[r].body.serviceCode, req[r].body.idNumber)
            IN  /\ req[r].status \in {200, 404}
                /\ req[r].status = 200 <=> i # 0
                /\ req[r].status = 200 =>
                       /\ Len(req[r].records) = 1
                       /\ Redact(req[r].records[1]) = Redact(leaves[i])

\* the store each file builds when it starts
StartupStore == [v \in Variants |-> BuildLeaves(v)]

\* C9: after any sequence of requests the store is the store built at
\* startup, and two lookups with the same values, at any two points, give
\* the same answer.
C9_StoreNeverChanges ==
    /\ leaves = StartupStore[variant]
    /\ \A r1 \in Requests, r2 \in Requests :
           (/\ DonePost(r1) /\ DonePost(r2)
            /\ InLog(r1, "search") /\ InLog(r2, "search")
            /\ req[r1].data = req[r2].data) =>
               /\ req[r1].status = req[r2].status
               /\ req[r1].records = req[r2].records

C9_Witness ==
    \E r1 \in Requests, r2 \in Requests :
        /\ r1 < r2
        /\ Done(r1) /\ req[r1].method = "GET" /\ req[r1].status = 200
        /\ DonePost(r2) /\ req[r2].status = 200

\* C10: every POST /api/leave that waits for the verification service is
\* answered in the end, even if the service never answers.
C10_EveryRequestAnswered ==
    \A r \in Requests : (req[r].pc = "verifying") ~> Done(r)

\* the handler of file v run from its start on one body, by itself
AloneStart(v, sec, store, body) ==
    CASE v = "joi" -> PostStartJoi(IdleRequest, body, sec, store)
      [] v = "p0" -> PostStartP0(IdleRequest, body, sec, store)
      [] v = "p1" -> PostP1(IdleRequest, body, store)
      [] v = "p2" -> PostP2(IdleRequest, body, store)

\* the request as it stands when handled alone: its own body, then, where
\* the handler waits for the collaborator, that request's own outcome
Alone(v, sec, store, body, outcome, ans) ==
    LET started == AloneStart(v, sec, store, body)
    IN  IF started.pc = "verifying" /\ outcome # "none"
        THEN VerifyDone(v, started, outcome, ans, store)
        ELSE started

\* C11: with several requests in flight, interleaved at the verification
\* await in any order, each request's response (and every step it took) is
\* what the request gets when handled alone: a function of its own body,
\* its own verification outcome and the constant store.
C11_RequestsIndependent ==
    \A r \in Requests :
        req[r].method = "POST" =>
            LET alone == Alone(variant, secret, StartupStore[variant],
                               req[r].body, req[r].outcome, req[r].answer)
            IN  /\ req[r].pc = alone.pc
                /\ req[r].status = alone.status
                /\ req[r].success = alone.success
                /\ req[r].records = alone.records
                /\ req[r].log = alone.log

\* request 2 arrived while request 1 was waiting, with another body, and
\* was answered first
C11_Witness ==
    /\ MaxRequests >= 2
    /\ req[1].pc = "verifying"
    /\ Done(2) /\ req[2].method = "POST"
    /\ req[2].outcome = "answer" /\ req[2].status = 200
    /\ req[2].body # req[1].body

\* C12: the score is optional in the verification decision: an answer is
\* accepted (no 403) exactly when it reports success and carries no score
\* or a score >= 0.5.
C12_ScoreOptional ==
    \A r \in Requests :
        (Done(r) /\ req[r].outcome = "answer") =>
            (req[r].status # 403 <=>
                /\ req[r].answer.success
                /\ \/ req[r].answer.score.t = "undefined"
                   \/ req[r].answer.score.n >= HalfInTenths)

\* the files that implement verification
Verifying == {"joi", "p0"}

\* the collaborator accepted the token of the request
TokenAccepted(r) ==
    /\ req[r].outcome = "answer"
    /\ req[r].answer.success
    /\ ~ScoreLtHalf(req[r].answer.score)

\* C13 as claimed: with a secret configured, in every variant that
\* verifies, the store is searched only for requests whose token the
\* collaborator accepted.
C13_SearchOnlyAfterAcceptedToken ==
    \A r \in Requests :
        (secret /\ variant \in Verifying /\ InLog(r, "search")) =>
            TokenAccepted(r)

\* C13 as the code has it: with a secret configured, the store is searched
\* only for requests whose token the collaborator accepted or, in part_000
\* alone, for requests without a truthy captchaToken, whose verification
\* is skipped; in server.js a request that omits captchaToken is answered
\* 400 and never reaches the verification or the search.
C13_SearchOnlyAfterAcceptedOrSkipped ==
    \A r \in Requests :
        /\ (secret /\ variant \in Verifying /\ InLog(r, "search")) =>
               \/ TokenAccepted(r)
               \/ /\ variant = "p0"
                  /\ ~Truthy(req[r].body.captchaToken)
                  /\ ~InLog(r, "verifyCall")
        /\ (variant = "joi" /\ req[r].method = "POST"
            /\ req[r].body.captchaToken = Undefined) =>
               /\ Done(r) /\ req[r].status = 400
               /\ ~InLog(r, "verifyCall") /\ ~InLog(r, "search")

\* server.js, secret set: a well-formed request without captchaToken
C13_Witness ==
    \E r \in Requests :
        /\ secret /\ variant = "joi" /\ DonePost(r)
        /\ ContractAccepts(req[r].body)
        /\ req[r].body.captchaToken = Undefined
        /\ req[r].status = 400

============================================================================
